---- MODULE Spec2Model ----
(***************************************************************************)
(* Model of config-sdk's SSE listener, src/src/listener.rs:                *)
(* start_listening_for_updates(url, update_handler, max_retries).          *)
(*                                                                         *)
(* One invocation is a sequential task; its suspension points (.await) are *)
(* the boundaries of the actions below.  Every variable is a function of   *)
(* the invocation, because an invocation shares nothing with another one.  *)
(*                                                                         *)
(* Text is a sequence of units.  A unit is one character ("d", ":", " ")   *)
(* or one whole JSON document written out as a string, or a byte that is   *)
(* not valid UTF-8.  A chunk is the sequence of units of one item of the   *)
(* response's bytes_stream().                                              *)
(***************************************************************************)
EXTENDS Integers, Sequences, FiniteSets, TLC

\* ---------------------------------------------------------------- bounds
MaxRetries == 3          \* small values of max_retries: 0..MaxRetries
MaxChunks == 2           \* chunks a stream yields when max_retries is small
OverflowChunks == 0      \* chunks a stream yields when max_retries is OverflowRetries
TwoRetries == 2          \* largest max_retries when two invocations run at once
TwoChunks == 1           \* chunks a stream yields when two invocations run at once

\* ------------------------------------------------------- program constants
BASE_DELAY == 2          \* const BASE_DELAY: u64 = 2
U64_LIMBS == 8           \* a u64 is 8 limbs ...
LimbBase == 256          \* ... of 8 bits each, least significant first
U64_BITS == 64

\* max_retries just large enough for BASE_DELAY.pow(attempt) to leave u64
OverflowRetries == U64_BITS + 1

Tasks == {1, 2}

\* ------------------------------------------------------------------ text
DataPrefix == <<"d", "a", "t", "a", ":", " ">>

DocTimeout == "{\"settings\":{\"timeout\":30}}"
DocEmpty == "{\"settings\":{}}"
DocNoSettings == "{\"timeout\":30}"
DocNotJson == "not-json"
\* DocTimeout cut in two, as a transport may deliver it
DocTimeoutHead == "{\"settings\":{\"time"
DocTimeoutTail == "out\":30}}"
BadByte == "\\xFF"

\* char::is_whitespace, restricted to the units used here
WhiteSpace == {" ", "\n", "\r", "\t"}

\* the chunks the server may send
ChunkSet ==
    { DataPrefix \o <<DocTimeout>>,
      DataPrefix \o <<DocEmpty, "\n", "\n">>,
      DataPrefix \o <<" ", DocTimeout>>,
      DataPrefix \o <<DocNotJson>>,
      DataPrefix \o <<DocNoSettings>>,
      DataPrefix \o DataPrefix \o <<DocEmpty>>,
      DataPrefix \o <<DocTimeout, "\n">> \o DataPrefix \o <<DocEmpty>>,
      DataPrefix \o <<BadByte, DocTimeout>>,
      <<"d", "a", "t", "a", ":", DocTimeout>>,
      <<" ">> \o DataPrefix \o <<DocTimeout>>,
      <<":", "\n">>,
      DataPrefix \o <<DocTimeoutHead>>,
      <<DocTimeoutTail>>,
      <<>> }

None == [some |-> FALSE, val |-> <<>>]
Some(v) == [some |-> TRUE, val |-> v]

\* a plausible slip: the bytes are taken as text without the check
FromUtf8Unchecked(bytes) == bytes

\* String::from_utf8(bytes.to_vec()).unwrap_or_else(|_| "".to_string())
FromUtf8OrEmpty(bytes) ==
    IF \E i \in 1..Len(bytes) : bytes[i] = BadByte THEN <<>> ELSE bytes

\* str::starts_with
StartsWith(text, pat) ==
    /\ Len(text) >= Len(pat)
    /\ SubSeq(text, 1, Len(pat)) = pat

\* str::strip_prefix: removes the prefix once
StripPrefixOnce(text, pat) ==
    IF StartsWith(text, pat) THEN SubSeq(text, Len(pat) + 1, Len(text)) ELSE text

\* str::trim_start_matches: removes the prefix repeatedly
RECURSIVE TrimStartMatches(_, _)
TrimStartMatches(text, pat) ==
    IF pat # <<>> /\ StartsWith(text, pat)
    THEN TrimStartMatches(SubSeq(text, Len(pat) + 1, Len(text)), pat)
    ELSE text

RECURSIVE TrimStart(_)
TrimStart(text) ==
    IF text # <<>> /\ Head(text) \in WhiteSpace THEN TrimStart(Tail(text)) ELSE text

RECURSIVE TrimEnd(_)
TrimEnd(text) ==
    IF text # <<>> /\ text[Len(text)] \in WhiteSpace
    THEN TrimEnd(SubSeq(text, 1, Len(text) - 1))
    ELSE text

\* str::trim
Trim(text) == TrimEnd(TrimStart(text))

\* listener.rs 74-75: the payload of one decoded chunk, if it has one
JsonPart(text) ==
    IF StartsWith(text, DataPrefix)
    THEN Some(Trim(TrimStartMatches(text, DataPrefix)))
    ELSE None

\* ServerConfig { settings: BTreeMap<String, Value> } as a set of key/value pairs
ServerConfig(settings) == [settings |-> settings]

\* serde_json::from_slice::<ServerConfig>: one well-shaped document, JSON
\* whitespace around it allowed, anything else is an error
FromSlice(payload) ==
    LET doc == Trim(payload) IN
    IF doc = <<DocTimeout>> \/ doc = <<DocTimeoutHead, DocTimeoutTail>>
    THEN [ok |-> TRUE, val |-> ServerConfig({<<"timeout", 30>>})]
    ELSE IF doc = <<DocEmpty>> THEN [ok |-> TRUE, val |-> ServerConfig({})]
    ELSE [ok |-> FALSE, val |-> ServerConfig({})]

\* --------------------------------------------------------- u64 arithmetic
U64One == [i \in 1..U64_LIMBS |-> IF i = 1 THEN 1 ELSE 0]
U64Zero == [i \in 1..U64_LIMBS |-> 0]

\* the u64 of a number below LimbBase
U64Of(n) == [i \in 1..U64_LIMBS |-> IF i = 1 THEN n ELSE 0]

\* limbs of x * k + c for one limb k, one limb longer than x
RECURSIVE MulCarry(_, _, _)
MulCarry(x, k, c) ==
    IF x = <<>> THEN <<c>>
    ELSE LET t == Head(x) * k + c
         IN  <<t % LimbBase>> \o MulCarry(Tail(x), k, t \div LimbBase)

\* limbs of x + y + c, as long as the longer of the two (the sum fits)
RECURSIVE AddLimbs(_, _, _)
AddLimbs(x, y, c) ==
    IF x = <<>> /\ y = <<>> THEN <<>>
    ELSE LET a == IF x = <<>> THEN 0 ELSE Head(x)
             b == IF y = <<>> THEN 0 ELSE Head(y)
             t == a + b + c
         IN  <<t % LimbBase>> \o
             AddLimbs(IF x = <<>> THEN <<>> ELSE Tail(x),
                      IF y = <<>> THEN <<>> ELSE Tail(y), t \div LimbBase)

\* the full product of two u64, 2 * U64_LIMBS limbs
RECURSIVE MulFull(_, _)
MulFull(x, y) ==
    IF y = <<>> THEN [i \in 1..Len(x) |-> 0]
    ELSE AddLimbs(MulCarry(x, Head(y), 0), <<0>> \o MulFull(x, Tail(y)), 0)

\* x * y on u64: the low 64 bits, and whether bits were lost
MulU64(x, y) ==
    LET full == MulFull(x, y)
    IN  [val |-> SubSeq(full, 1, U64_LIMBS),
         overflow |-> \E i \in (U64_LIMBS + 1)..Len(full) : full[i] # 0]

\* the loop of u64::pow, for exp >= 1: square and multiply
RECURSIVE PowLoop(_, _, _, _)
PowLoop(acc, base, exp, overflow) ==
    LET product == MulU64(acc, base)
        square == MulU64(base, base)
    IN  IF exp % 2 = 1
        THEN IF exp = 1
             THEN [val |-> product.val, overflow |-> overflow \/ product.overflow]
             ELSE PowLoop(product.val, square.val, exp \div 2,
                          overflow \/ product.overflow \/ square.overflow)
        ELSE PowLoop(acc, square.val, exp \div 2, overflow \/ square.overflow)

\* u64::pow(self, exp: u32): the wrapped value, and whether a multiplication
\* in it overflowed
PowU64(base, exp) ==
    IF exp = 0 THEN [val |-> U64One, overflow |-> FALSE]
    ELSE PowLoop(U64One, U64Of(base), exp, FALSE)

\* ----------------------------------------------------------------- state
VARIABLES
    max_retries,   \* the argument max_retries: u32
    stream_cap,    \* how many chunks the server sends at most on one response
    pc,            \* where the invocation is
    attempt,       \* let mut attempt = 0
    result,        \* what the invocation returned, "None" while it runs
    delay,         \* the u64 handed to sleep(Duration::from_secs(delay))
    gets,          \* GET requests sent
    sleeps,        \* sleeps started
    chunks,        \* Ok(bytes) items pulled from the response, in order
    payloads,      \* json_part of each of them, None where the prefix is absent
    handled,       \* the arguments of update_handler, in call order
    log,           \* records emitted to the slog Logger, counted by message
    last_log       \* the latest record: message and its key-value

vars == <<max_retries, stream_cap, pc, attempt, result, delay, gets, sleeps,
          chunks, payloads, handled, log, last_log>>

\* the messages of the info!/warn! calls of listener.rs
LogMessages ==
    { "Connected to SSE server",
      "Received SSE data",
      "Configuration updated",
      "Failed to parse configuration data",
      "Error processing SSE data",
      "Received non-success status from SSE server",
      "Failed to connect to SSE server",
      "Retrying in {} seconds..." }

Emitted(p, msg) == IF msg \in DOMAIN log[p] THEN log[p][msg] ELSE 0

Bump(lg, p, msg) == [lg EXCEPT ![p][msg] = @ + 1]
Record(msg, kv) == [msg |-> msg, kv |-> kv]

\* the inputs of one run: (max_retries, stream_cap)
Inputs ==
    ((0..MaxRetries) \X {MaxChunks}) \cup ({OverflowRetries} \X {OverflowChunks})

InitWith(in, invoked) ==
    /\ max_retries = [p \in Tasks |-> in[1]]
    /\ stream_cap = [p \in Tasks |-> in[2]]
    /\ pc = [p \in Tasks |-> IF p \in invoked THEN "Start" ELSE "Idle"]
    /\ attempt = [p \in Tasks |-> 0]
    /\ result = [p \in Tasks |-> "None"]
    /\ delay = [p \in Tasks |-> U64Zero]
    /\ gets = [p \in Tasks |-> 0]
    /\ sleeps = [p \in Tasks |-> 0]
    /\ chunks = [p \in Tasks |-> <<>>]
    /\ payloads = [p \in Tasks |-> <<>>]
    /\ handled = [p \in Tasks |-> <<>>]
    /\ log = [p \in Tasks |-> [m \in LogMessages |-> 0]]
    /\ last_log = [p \in Tasks |-> Record("", <<>>)]

\* one invocation, of task 1
Init == \E in \in Inputs : InitWith(in, {1})

\* two invocations in flight at once, each with its own arguments: every
\* call of the async fn owns its attempt, client, response and timer
\* (listener.rs 44-55 are parameters and locals)
TwoInputs ==
    [Tasks -> {<<TwoRetries, TwoChunks>>, <<TwoRetries - 1, TwoChunks - 1>>}]

InitTwo ==
    \E ins \in TwoInputs :
        /\ ins[1] # ins[2]
        /\ max_retries = [p \in Tasks |-> ins[p][1]]
        /\ stream_cap = [p \in Tasks |-> ins[p][2]]
        /\ pc = [p \in Tasks |-> "Start"]
        /\ attempt = [p \in Tasks |-> 0]
        /\ result = [p \in Tasks |-> "None"]
        /\ delay = [p \in Tasks |-> U64Zero]
        /\ gets = [p \in Tasks |-> 0]
        /\ sleeps = [p \in Tasks |-> 0]
        /\ chunks = [p \in Tasks |-> <<>>]
        /\ payloads = [p \in Tasks |-> <<>>]
        /\ handled = [p \in Tasks |-> <<>>]
        /\ log = [p \in Tasks |-> [m \in LogMessages |-> 0]]
        /\ last_log = [p \in Tasks |-> Record("", <<>>)]

\* --------------------------------------------------------------- actions
\* listener.rs 49-53: the logger and the client are built; build()? succeeds
Start(p) ==
    /\ pc[p] = "Start"
    /\ pc' = [pc EXCEPT ![p] = "Connecting"]
    /\ UNCHANGED <<max_retries, stream_cap, attempt, result, delay, gets, sleeps,
                   chunks, payloads, handled, log, last_log>>

\* listener.rs 50-52: build()? returns the error
ClientBuildFails(p) ==
    /\ pc[p] = "Start"
    /\ pc' = [pc EXCEPT ![p] = "Failed"]
    /\ result' = [result EXCEPT ![p] = "ClientBuildError"]
    /\ UNCHANGED <<max_retries, stream_cap, attempt, delay, gets, sleeps,
                   chunks, payloads, handled, log, last_log>>

\* a plausible slip: attempt is a counter shared by the invocations
ConnectSharedCounter(p) ==
    /\ pc[p] = "Connecting"
    /\ attempt' = [q \in Tasks |-> IF pc[q] = "Idle" THEN attempt[q] ELSE attempt[q] + 1]
    /\ gets' = [gets EXCEPT ![p] = @ + 1]
    /\ pc' = [pc EXCEPT ![p] = "AwaitResponse"]
    /\ UNCHANGED <<max_retries, stream_cap, result, delay, sleeps,
                   chunks, payloads, handled, log, last_log>>

\* listener.rs 56-62: top of the loop, attempt += 1 and the GET is sent.
\* attempt is a u32; it stops growing at max_retries, so it cannot wrap.
Connect(p) ==
    /\ pc[p] = "Connecting"
    /\ attempt' = [attempt EXCEPT ![p] = @ + 1]
    /\ gets' = [gets EXCEPT ![p] = @ + 1]
    /\ pc' = [pc EXCEPT ![p] = "AwaitResponse"]
    /\ UNCHANGED <<max_retries, stream_cap, result, delay, sleeps,
                   chunks, payloads, handled, log, last_log>>

\* a plausible slip: > where the code has >=
RetryOrFailOffByOne(p, lg, ll) ==
    IF attempt[p] > max_retries[p]
    THEN /\ pc' = [pc EXCEPT ![p] = "Failed"]
         /\ result' = [result EXCEPT ![p] = "RetriesExhausted"]
         /\ log' = lg
         /\ last_log' = ll
         /\ UNCHANGED <<delay, sleeps>>
    ELSE /\ pc' = [pc EXCEPT ![p] = "Backoff"]
         /\ delay' = [delay EXCEPT ![p] = PowU64(BASE_DELAY, attempt[p]).val]
         /\ sleeps' = [sleeps EXCEPT ![p] = @ + 1]
         /\ log' = Bump(lg, p, "Retrying in {} seconds...")
         /\ last_log' = [ll EXCEPT ![p] =
                            Record("Retrying in {} seconds...", delay'[p])]
         /\ UNCHANGED result

\* a plausible slip: == where the code has >=
RetryOrFailEquality(p, lg, ll) ==
    IF attempt[p] = max_retries[p]
    THEN /\ pc' = [pc EXCEPT ![p] = "Failed"]
         /\ result' = [result EXCEPT ![p] = "RetriesExhausted"]
         /\ log' = lg
         /\ last_log' = ll
         /\ UNCHANGED <<delay, sleeps>>
    ELSE /\ pc' = [pc EXCEPT ![p] = "Backoff"]
         /\ delay' = [delay EXCEPT ![p] = PowU64(BASE_DELAY, attempt[p]).val]
         /\ sleeps' = [sleeps EXCEPT ![p] = @ + 1]
         /\ log' = Bump(lg, p, "Retrying in {} seconds...")
         /\ last_log' = [ll EXCEPT ![p] =
                            Record("Retrying in {} seconds...", delay'[p])]
         /\ UNCHANGED result

\* listener.rs 106-114, after a failed attempt; lg and ll are the log with the
\* failure's record in it.  BASE_DELAY.pow(attempt) that leaves u64 panics in
\* a build with overflow checks and wraps in a build without.
RetryOrFail(p, lg, ll) ==
    IF attempt[p] >= max_retries[p]
    THEN /\ pc' = [pc EXCEPT ![p] = "Failed"]
         /\ result' = [result EXCEPT ![p] = "RetriesExhausted"]
         /\ log' = lg
         /\ last_log' = ll
         /\ UNCHANGED <<delay, sleeps>>
    ELSE LET d == PowU64(BASE_DELAY, attempt[p]) IN
         \/ /\ d.overflow
            /\ pc' = [pc EXCEPT ![p] = "Panicked"]
            /\ log' = lg
            /\ last_log' = ll
            /\ UNCHANGED <<result, delay, sleeps>>
         \/ /\ pc' = [pc EXCEPT ![p] = "Backoff"]
            /\ delay' = [delay EXCEPT ![p] = d.val]
            /\ sleeps' = [sleeps EXCEPT ![p] = @ + 1]
            /\ log' = Bump(lg, p, "Retrying in {} seconds...")
            /\ last_log' = [ll EXCEPT ![p] =
                               Record("Retrying in {} seconds...", d.val)]
            /\ UNCHANGED result

\* listener.rs 101-103, then 106-114: send() returned Err(e)
ConnectError(p) ==
    /\ pc[p] = "AwaitResponse"
    /\ RetryOrFail(p, Bump(log, p, "Failed to connect to SSE server"),
                   [last_log EXCEPT ![p] =
                       Record("Failed to connect to SSE server", <<attempt[p]>>)])
    /\ UNCHANGED <<max_retries, stream_cap, attempt, gets, chunks, payloads, handled>>

\* a plausible slip: the body of an error response is streamed like a success
NonSuccessStatusReadsBody(p) ==
    /\ pc[p] = "AwaitResponse"
    /\ pc' = [pc EXCEPT ![p] = "Streaming"]
    /\ log' = Bump(log, p, "Received non-success status from SSE server")
    /\ last_log' = [last_log EXCEPT ![p] =
                       Record("Received non-success status from SSE server", <<>>)]
    /\ UNCHANGED <<max_retries, stream_cap, attempt, result, delay, gets, sleeps,
                   chunks, payloads, handled>>

\* listener.rs 96-99, then 106-114: a response whose status is not 2xx
NonSuccessStatus(p) ==
    /\ pc[p] = "AwaitResponse"
    /\ RetryOrFail(p, Bump(log, p, "Received non-success status from SSE server"),
                   [last_log EXCEPT ![p] =
                       Record("Received non-success status from SSE server", <<>>)])
    /\ UNCHANGED <<max_retries, stream_cap, attempt, gets, chunks, payloads, handled>>

\* listener.rs 63-66: a 2xx response, its byte stream is opened
ConnectSuccess(p) ==
    /\ pc[p] = "AwaitResponse"
    /\ pc' = [pc EXCEPT ![p] = "Streaming"]
    /\ log' = Bump(log, p, "Connected to SSE server")
    /\ last_log' = [last_log EXCEPT ![p] =
                       Record("Connected to SSE server", <<attempt[p]>>)]
    /\ UNCHANGED <<max_retries, stream_cap, attempt, result, delay, gets, sleeps,
                   chunks, payloads, handled>>

\* a plausible slip: the counter is started afresh after each backoff
WakeResetsAttempt(p) ==
    /\ pc[p] = "Backoff"
    /\ pc' = [pc EXCEPT ![p] = "Connecting"]
    /\ attempt' = [attempt EXCEPT ![p] = 0]
    /\ UNCHANGED <<max_retries, stream_cap, result, delay, gets, sleeps,
                   chunks, payloads, handled, log, last_log>>

\* listener.rs 114-115: the sleep is over, back to the top of the loop
Wake(p) ==
    /\ pc[p] = "Backoff"
    /\ pc' = [pc EXCEPT ![p] = "Connecting"]
    /\ UNCHANGED <<max_retries, stream_cap, attempt, result, delay, gets, sleeps,
                   chunks, payloads, handled, log, last_log>>

\* a plausible slip: the newest config is put first
UpdateHandlerPrepends(calls, config) == <<config>> \o calls

\* listener.rs 78: update_handler(config)
UpdateHandler(calls, config) == Append(calls, config)

\* listener.rs 74: the chunk does not start with "data: ", nothing is decoded
NoPayload(p, lg, text) ==
    /\ log' = lg
    /\ last_log' = [last_log EXCEPT ![p] = Record("Received SSE data", text)]
    /\ UNCHANGED <<handled, pc, result>>

\* a plausible slip: the handler is called for the config and again after the
\* record is written
ConfigUpdatedTwice(p, lg, json_part, config) ==
    /\ handled' = [handled EXCEPT ![p] = UpdateHandler(UpdateHandler(@, config), config)]
    /\ log' = Bump(lg, p, "Configuration updated")
    /\ last_log' = [last_log EXCEPT ![p] = Record("Configuration updated", json_part)]
    /\ UNCHANGED <<pc, result>>

\* listener.rs 77-80: Ok(config), the handler is called, then the record
ConfigUpdated(p, lg, json_part, config) ==
    /\ handled' = [handled EXCEPT ![p] = UpdateHandler(@, config)]
    /\ log' = Bump(lg, p, "Configuration updated")
    /\ last_log' = [last_log EXCEPT ![p] = Record("Configuration updated", json_part)]
    /\ UNCHANGED <<pc, result>>

\* a plausible slip: the decode error is returned with ?
ParseFailedReturns(p, lg) ==
    /\ log' = Bump(lg, p, "Failed to parse configuration data")
    /\ last_log' = [last_log EXCEPT ![p] =
                       Record("Failed to parse configuration data", <<>>)]
    /\ pc' = [pc EXCEPT ![p] = "Failed"]
    /\ result' = [result EXCEPT ![p] = "DecodeError"]
    /\ UNCHANGED handled

\* listener.rs 81-83: Err(e), a warning and nothing else
ParseFailed(p, lg) ==
    /\ log' = Bump(lg, p, "Failed to parse configuration data")
    /\ last_log' = [last_log EXCEPT ![p] =
                       Record("Failed to parse configuration data", <<>>)]
    /\ UNCHANGED <<handled, pc, result>>

\* a plausible change: a chunk that gave no config is kept and the next chunk
\* is read as its continuation
RecvChunkBuffered(p) ==
    /\ pc[p] = "Streaming"
    /\ Len(chunks[p]) < stream_cap[p]
    /\ \E bytes \in ChunkSet :
          LET n == Len(chunks[p])
              kept == IF n > 0 /\ ~(payloads[p][n].some /\ FromSlice(payloads[p][n].val).ok)
                      THEN FromUtf8OrEmpty(chunks[p][n])
                      ELSE <<>>
              text == kept \o FromUtf8OrEmpty(bytes)
              json_part == JsonPart(text)
              parsed == FromSlice(json_part.val)
              lg == Bump(log, p, "Received SSE data")
          IN  /\ chunks' = [chunks EXCEPT ![p] = Append(@, bytes)]
              /\ payloads' = [payloads EXCEPT ![p] = Append(@, json_part)]
              /\ IF ~json_part.some THEN NoPayload(p, lg, text)
                 ELSE IF parsed.ok THEN ConfigUpdated(p, lg, json_part.val, parsed.val)
                 ELSE ParseFailed(p, lg)
    /\ UNCHANGED <<max_retries, stream_cap, attempt, delay, gets, sleeps>>

\* listener.rs 68-86: stream.next() yields Some(Ok(bytes))
RecvChunk(p) ==
    /\ pc[p] = "Streaming"
    /\ Len(chunks[p]) < stream_cap[p]
    /\ \E bytes \in ChunkSet :
          LET text == FromUtf8OrEmpty(bytes)
              json_part == JsonPart(text)
              parsed == FromSlice(json_part.val)
              lg == Bump(log, p, "Received SSE data")
          IN  /\ chunks' = [chunks EXCEPT ![p] = Append(@, bytes)]
              /\ payloads' = [payloads EXCEPT ![p] = Append(@, json_part)]
              /\ IF ~json_part.some THEN NoPayload(p, lg, text)
                 ELSE IF parsed.ok THEN ConfigUpdated(p, lg, json_part.val, parsed.val)
                 ELSE ParseFailed(p, lg)
    /\ UNCHANGED <<max_retries, stream_cap, attempt, delay, gets, sleeps>>

\* a plausible slip: a read error is retried like a failed connect
StreamErrorRetries(p) ==
    /\ pc[p] = "Streaming"
    /\ RetryOrFail(p, Bump(log, p, "Error processing SSE data"),
                   [last_log EXCEPT ![p] = Record("Error processing SSE data", <<>>)])
    /\ UNCHANGED <<max_retries, stream_cap, attempt, gets, chunks, payloads, handled>>

\* listener.rs 87-90: stream.next() yields Some(Err(e))
StreamError(p) ==
    /\ pc[p] = "Streaming"
    /\ pc' = [pc EXCEPT ![p] = "Failed"]
    /\ result' = [result EXCEPT ![p] = "StreamReadError"]
    /\ log' = Bump(log, p, "Error processing SSE data")
    /\ last_log' = [last_log EXCEPT ![p] = Record("Error processing SSE data", <<>>)]
    /\ UNCHANGED <<max_retries, stream_cap, attempt, delay, gets, sleeps,
                   chunks, payloads, handled>>

\* listener.rs 68, 92-95, 117: stream.next() yields None, break, Ok(())
StreamEnd(p) ==
    /\ pc[p] = "Streaming"
    /\ pc' = [pc EXCEPT ![p] = "Done"]
    /\ result' = [result EXCEPT ![p] = "Ok"]
    /\ UNCHANGED <<max_retries, stream_cap, attempt, delay, gets, sleeps,
                   chunks, payloads, handled, log, last_log>>

Next ==
    \E p \in Tasks :
        \/ Start(p)
        \/ ClientBuildFails(p)
        \/ Connect(p)
        \/ ConnectError(p)
        \/ NonSuccessStatus(p)
        \/ ConnectSuccess(p)
        \/ Wake(p)
        \/ RecvChunk(p)
        \/ StreamError(p)
        \/ StreamEnd(p)

Spec == Init /\ [][Next]_vars

\* the same steps, two invocations interleaved
SpecTwo == InitTwo /\ [][Next]_vars

\* ---------------------------------------------------- what the claims use
Max(a, b) == IF a >= b THEN a ELSE b

MsgConnected == "Connected to SSE server"
MsgConnectFailed == "Failed to connect to SSE server"
MsgNonSuccess == "Received non-success status from SSE server"
MsgParseFailed == "Failed to parse configuration data"
MsgStreamError == "Error processing SSE data"
\* listener.rs emits no record when an attempt starts; this names the one
\* the specification describes
MsgConnectAttempt == "connect-attempt"

\* the invocation no longer runs
Terminated(p) == pc[p] \in {"Done", "Failed", "Panicked"}

\* exact arithmetic, to compare the u64 results with: a number as its limbs
\* without high zeros, and 2^n as such limbs
RECURSIVE StripHighZeros(_)
StripHighZeros(x) ==
    IF x # <<>> /\ x[Len(x)] = 0 THEN StripHighZeros(SubSeq(x, 1, Len(x) - 1)) ELSE x

ExactPowerOfTwo(n) ==
    [i \in 1..((n \div 8) + 1) |-> IF i = (n \div 8) + 1 THEN 2 ^ (n % 8) ELSE 0]

\* the payload the specification's extractor gives: the prefix removed once
SpecPayload(text) ==
    IF StartsWith(text, DataPrefix)
    THEN Some(Trim(StripPrefixOnce(text, DataPrefix)))
    ELSE None

\* a chunk that carries one valid payload
CarriesValidPayload(bytes) ==
    LET sp == SpecPayload(FromUtf8OrEmpty(bytes))
    IN  sp.some /\ FromSlice(sp.val).ok

DecodingOf(bytes) == FromSlice(SpecPayload(FromUtf8OrEmpty(bytes)).val).val

\* the i-th chunk pulled had a payload and it did not decode
Malformed(p, i) == payloads[p][i].some /\ ~FromSlice(payloads[p][i].val).ok
WellFormed(p, i) == payloads[p][i].some /\ FromSlice(payloads[p][i].val).ok

\* --------------------------------------------------------------- claims

C2_MidStreamFatal ==
    [][\A p \in Tasks :
        /\ log'[p][MsgStreamError] > log[p][MsgStreamError] =>
              /\ pc[p] = "Streaming"
              /\ pc'[p] = "Failed"
              /\ result'[p] = "StreamReadError"
              /\ gets'[p] = gets[p]
              /\ sleeps'[p] = sleeps[p]
              /\ attempt'[p] = attempt[p]
        /\ result[p] = "StreamReadError" =>
              /\ pc'[p] = pc[p]
              /\ result'[p] = result[p]
              /\ gets'[p] = gets[p]
              /\ sleeps'[p] = sleeps[p]]_vars

C2_Witness ==
    /\ result[1] = "StreamReadError"
    /\ pc[1] = "Failed"
    /\ attempt[1] = 1
    /\ max_retries[1] = 3
    /\ sleeps[1] = 0

\* C3: backoff growth.  After failed attempt n < max_retries the invocation
\* sleeps, and the delay it sleeps is exactly BASE_DELAY^n = 2^n.
C3_BackoffGrowth ==
    \A p \in Tasks :
        /\ pc[p] = "Backoff" =>
              StripHighZeros(delay[p]) = ExactPowerOfTwo(attempt[p])
        /\ pc[p] # "Panicked"

\* C4: decode isolation.  The step that pulls a payload that does not decode
\* leaves the invocation streaming, returns nothing, sends no GET, starts no
\* sleep, calls no handler and emits one parse-failure record; and at any time
\* the handler has been called once for each payload that did decode, so the
\* valid payloads after a malformed one are delivered.
C4_DecodeIsolation ==
    /\ [](\A p \in Tasks :
            /\ Len(handled[p]) =
                  Cardinality({i \in 1..Len(payloads[p]) : WellFormed(p, i)})
            /\ Emitted(p, MsgParseFailed) =
                  Cardinality({i \in 1..Len(payloads[p]) : Malformed(p, i)}))
    /\ [][\A p \in Tasks :
            (/\ Len(payloads'[p]) = Len(payloads[p]) + 1
             /\ payloads'[p][Len(payloads'[p])].some
             /\ ~FromSlice(payloads'[p][Len(payloads'[p])].val).ok)
            => /\ pc[p] = "Streaming"
               /\ pc'[p] = "Streaming"
               /\ result'[p] = "None"
               /\ gets'[p] = gets[p]
               /\ sleeps'[p] = sleeps[p]
               /\ attempt'[p] = attempt[p]
               /\ handled'[p] = handled[p]
               /\ log'[p][MsgParseFailed] = log[p][MsgParseFailed] + 1]_vars

C4_Witness ==
    /\ Len(payloads[1]) = 2
    /\ Malformed(1, 1)
    /\ WellFormed(1, 2)
    /\ Len(handled[1]) = 1
    /\ Emitted(1, MsgParseFailed) = 1
    /\ pc[1] = "Done"

\* C5: order preservation.  When every chunk pulled so far carries one valid
\* payload, the handler has been called once per chunk, and its i-th call got
\* the decoding of the i-th chunk's payload.
C5_OrderPreservation ==
    \A p \in Tasks :
        (\A i \in 1..Len(chunks[p]) : CarriesValidPayload(chunks[p][i]))
        => /\ Len(handled[p]) = Len(chunks[p])
           /\ \A i \in 1..Len(chunks[p]) : handled[p][i] = DecodingOf(chunks[p][i])

C5_Witness ==
    /\ Len(chunks[1]) = MaxChunks
    /\ \A i \in 1..Len(chunks[1]) : CarriesValidPayload(chunks[1][i])
    /\ Len(handled[1]) = MaxChunks
    /\ handled[1][1] # handled[1][2]

\* C6: frame extraction.  The payload taken from a chunk is what follows one
\* leading "data: ", trimmed, and there is none when the chunk does not start
\* with "data: ".
C6_FrameExtraction ==
    \A p \in Tasks :
        \A i \in 1..Len(chunks[p]) :
            payloads[p][i] = SpecPayload(FromUtf8OrEmpty(chunks[p][i]))

\* C7: terminal result.  An invocation that has stopped has returned Ok or one
\* Err, and Ok exactly when a response with a success status was streamed to
\* its clean end.
C7_TerminalResult ==
    \A p \in Tasks :
        Terminated(p) =>
            /\ result[p] \in {"Ok", "RetriesExhausted", "StreamReadError",
                              "ClientBuildError"}
            /\ result[p] = "Ok" <=>
                  (Emitted(p, MsgConnected) = 1 /\ Emitted(p, MsgStreamError) = 0)

\* what lines 106-114 do after a failed attempt, as far as control goes
FailedAttemptOutcome(p) ==
    IF attempt[p] >= max_retries[p]
    THEN /\ pc'[p] = "Failed"
         /\ result'[p] = "RetriesExhausted"
         /\ sleeps'[p] = sleeps[p]
    ELSE /\ result'[p] = "None"
         /\ \/ pc'[p] = "Backoff" /\ sleeps'[p] = sleeps[p] + 1
            \/ pc'[p] = "Panicked" /\ PowU64(BASE_DELAY, attempt[p]).overflow

C9_ExhaustedRetries ==
    \A p \in Tasks :
        (/\ max_retries[p] >= 1
         /\ gets[p] = max_retries[p]
         /\ Emitted(p, MsgConnectFailed) = max_retries[p])
        => /\ result[p] = "RetriesExhausted"
           /\ handled[p] = <<>>
           /\ Emitted(p, MsgConnectFailed) = max_retries[p]
           /\ Emitted(p, MsgConnectAttempt) = max_retries[p]

Failures(p) == Emitted(p, MsgConnectFailed) + Emitted(p, MsgNonSuccess)

\* C11: backoff step ordering.  When every attempt so far has failed, the
\* invocation has either failed for good, with attempt >= max_retries and one
\* sleep between each two attempts and none after the last, or it has started
\* exactly one sleep after each failed attempt and connects again after it.
C11_BackoffOrdering ==
    \A p \in Tasks :
        (gets[p] >= 1 /\ Failures(p) = gets[p]) =>
            IF attempt[p] >= max_retries[p]
            THEN pc[p] = "Failed" /\ sleeps[p] = gets[p] - 1
            ELSE pc[p] \in {"Backoff", "Connecting"} /\ sleeps[p] = gets[p]

\* C12: attempt counter.  attempt is 0 before the first GET and equals the
\* number of GET requests sent in every state; a step either leaves it alone
\* or is the top of the loop, which adds one to it and sends one GET, and
\* pulls no chunk and starts no sleep.
C12_AttemptCount ==
    /\ [](\A p \in Tasks :
            /\ attempt[p] = gets[p]
            /\ pc[p] \in {"Idle", "Start"} => attempt[p] = 0)
    /\ [][\A p \in Tasks :
            \/ attempt'[p] = attempt[p] /\ gets'[p] = gets[p]
            \/ /\ pc[p] = "Connecting"
               /\ pc'[p] = "AwaitResponse"
               /\ attempt'[p] = attempt[p] + 1
               /\ gets'[p] = gets[p] + 1
               /\ chunks'[p] = chunks[p]
               /\ sleeps'[p] = sleeps[p]
               /\ log'[p] = log[p]]_vars

C12_Witness ==
    /\ attempt[1] = 3
    /\ gets[1] = 3
    /\ sleeps[1] = 2
    /\ Len(chunks[1]) = MaxChunks
    /\ Emitted(1, MsgParseFailed) >= 1
    /\ pc[1] = "Done"

\* the two chunks of a payload that the transport split
SplitHeadChunk == DataPrefix \o <<DocTimeoutHead>>
SplitTailChunk == <<DocTimeoutTail>>

\* C13: chunks are handled independently.  The payload taken from a chunk is
\* determined by that chunk's bytes alone: equal chunks give equal payloads,
\* wherever they come in a stream.  A valid payload that arrives split over
\* two consecutive chunks gives a config for neither, no handler call, and the
\* stream is not ended by it.
C13_ChunksIndependent ==
    \A p \in Tasks :
        /\ \A q \in Tasks :
              \A i \in 1..Len(chunks[p]) :
                 \A j \in 1..Len(chunks[q]) :
                    chunks[p][i] = chunks[q][j] => payloads[p][i] = payloads[q][j]
        /\ \A i \in 1..(Len(chunks[p]) - 1) :
              (chunks[p][i] = SplitHeadChunk /\ chunks[p][i + 1] = SplitTailChunk) =>
                  /\ FromSlice(SpecPayload(chunks[p][i] \o chunks[p][i + 1]).val).ok
                  /\ ~WellFormed(p, i)
                  /\ ~WellFormed(p, i + 1)
                  /\ Len(handled[p]) =
                        Cardinality({k \in 1..Len(payloads[p]) : WellFormed(p, k)})
                  /\ result[p] \in {"None", "Ok", "StreamReadError"}
                  /\ pc[p] \in {"Streaming", "Done", "Failed"}

C13_Witness ==
    /\ chunks[1] = <<SplitHeadChunk, SplitTailChunk>>
    /\ handled[1] = <<>>
    /\ pc[1] = "Streaming"

MsgReceived == "Received SSE data"
MsgRetrying == "Retrying in {} seconds..."
\* listener.rs emits no record when it gives up; this names the one the
\* specification describes
MsgRetriesExhausted == "retries-exhausted"

HasBadByte(bytes) == \E i \in 1..Len(bytes) : bytes[i] = BadByte
TwoDataLines == DataPrefix \o <<DocTimeout, "\n">> \o DataPrefix \o <<DocEmpty>>

\* C14: a chunk that is not valid UTF-8 is an empty chunk.  The step that
\* pulls it takes no payload from it, calls no handler, emits no parse
\* failure, returns nothing and leaves the invocation streaming on the same
\* response; the text it records as received is empty.
C14_InvalidUtf8Ignored ==
    [][\A p \in Tasks :
        (/\ Len(chunks'[p]) = Len(chunks[p]) + 1
         /\ HasBadByte(chunks'[p][Len(chunks'[p])]))
        => /\ payloads'[p][Len(payloads'[p])] = None
           /\ handled'[p] = handled[p]
           /\ log'[p][MsgParseFailed] = log[p][MsgParseFailed]
           /\ last_log'[p] = Record(MsgReceived, <<>>)
           /\ pc[p] = "Streaming"
           /\ pc'[p] = "Streaming"
           /\ result'[p] = "None"
           /\ gets'[p] = gets[p]]_vars

C14_Witness ==
    /\ Len(chunks[1]) = 2
    /\ HasBadByte(chunks[1][1])
    /\ StartsWith(chunks[1][1], DataPrefix)
    /\ payloads[1][1] = None
    /\ WellFormed(1, 2)
    /\ Len(handled[1]) = 1
    /\ pc[1] = "Done"

\* C15: at most one candidate payload per chunk.  The handler calls and the
\* parse-failure records together never outnumber the chunks pulled, also
\* when a chunk holds several "data: " lines.
C15_OnePayloadPerChunk ==
    \A p \in Tasks :
        Len(handled[p]) + Emitted(p, MsgParseFailed) <= Len(chunks[p])

C15_Witness ==
    /\ chunks[1] = <<TwoDataLines, DataPrefix \o <<DocTimeout>>>>
    /\ Len(handled[1]) = 1
    /\ Emitted(1, MsgParseFailed) = 1

\* C16: when RetriesExhausted has been returned a retries-exhausted record
\* has been emitted, and while the invocation sleeps the latest record is the
\* retry-scheduled one, carrying the delay being slept, one such record per
\* sleep.
C16_ExhaustedAndRetryRecords ==
    \A p \in Tasks :
        /\ result[p] = "RetriesExhausted" => Emitted(p, MsgRetriesExhausted) >= 1
        /\ pc[p] = "Backoff" => last_log[p] = Record(MsgRetrying, delay[p])
        /\ Emitted(p, MsgRetrying) = sleeps[p]

TaskState(p) ==
    <<max_retries[p], stream_cap[p], pc[p], attempt[p], result[p], delay[p], gets[p],
      sleeps[p], chunks[p], payloads[p], handled[p], log[p], last_log[p]>>

\* C17: two invocations running at once are independent.  Each counts its
\* own attempts and GETs and sleeps its own delays, no step changes the state
\* of both, and each obeys its own max_retries: it makes at most
\* max(max_retries, 1) attempts and gives up only when its own count has
\* reached its own bound.
C17_Independence ==
    /\ [](\A p \in Tasks :
            /\ attempt[p] = gets[p]
            /\ gets[p] <= Max(max_retries[p], 1)
            /\ sleeps[p] <= gets[p]
            /\ pc[p] = "Backoff" => delay[p] = PowU64(BASE_DELAY, attempt[p]).val
            /\ result[p] = "RetriesExhausted" =>
                  /\ attempt[p] = Max(max_retries[p], 1)
                  /\ Failures(p) = attempt[p])
    /\ [][\A p \in Tasks : \A q \in Tasks \ {p} :
            \/ TaskState(p)' = TaskState(p)
            \/ TaskState(q)' = TaskState(q)]_vars

C17_Witness ==
    /\ max_retries[1] = TwoRetries
    /\ max_retries[2] = TwoRetries - 1
    /\ pc[1] = "Backoff"
    /\ attempt[1] = 1
    /\ result[2] = "RetriesExhausted"
    /\ attempt[2] = 1
    /\ sleeps[2] = 0

\* C18: a single streaming phase.  An invocation connects successfully at
\* most once; from Streaming it goes only to Done or Failed, never back to
\* connecting or sleeping; after the successful connect no further GET is
\* sent, so every handler call belongs to that last attempt; the handler is
\* called only by a step taken while streaming, never before the successful
\* connect and never after the invocation has returned.
C18_SingleStreamingPhase ==
    /\ [](\A p \in Tasks :
            /\ Emitted(p, MsgConnected) <= 1
            /\ pc[p] = "Streaming" => Emitted(p, MsgConnected) = 1
            /\ Emitted(p, MsgConnected) = 0 => chunks[p] = <<>> /\ handled[p] = <<>>
            /\ pc[p] \in {"Connecting", "AwaitResponse", "Backoff"} =>
                  Emitted(p, MsgConnected) = 0)
    /\ [][\A p \in Tasks :
            /\ pc[p] = "Streaming" => pc'[p] \in {"Streaming", "Done", "Failed"}
            /\ Emitted(p, MsgConnected) = 1 =>
                  gets'[p] = gets[p] /\ sleeps'[p] = sleeps[p]
            /\ handled'[p] # handled[p] => pc[p] = "Streaming" /\ pc'[p] = "Streaming"
            /\ pc[p] \in {"Done", "Failed"} => TaskState(p)' = TaskState(p)]_vars

C18_Witness ==
    /\ pc[1] = "Done"
    /\ gets[1] = 3
    /\ sleeps[1] = 2
    /\ Emitted(1, MsgConnected) = 1
    /\ Len(handled[1]) = MaxChunks

\* the invocation has returned to its caller
Returned(p) == pc[p] \in {"Done", "Failed"}

\* C19: termination.  Streams are finite (stream_cap chunks at most) and every
\* pending connect, sleep and read completes, so an invocation that has not
\* returned Ok or an Err always has a step to take (to build its client, to
\* send the GET, to get its response, to wake up or to see its stream end):
\* it is never left stopped short of Done and Failed, for any max_retries.
C19_Termination ==
    \A p \in Tasks :
        \/ pc[p] = "Idle"
        \/ Returned(p)
        \/ ENABLED Start(p)
        \/ ENABLED Connect(p)
        \/ ENABLED ConnectSuccess(p)
        \/ ENABLED Wake(p)
        \/ ENABLED StreamEnd(p)

\* x < y, for two u64 values as limbs
LessU64(x, y) ==
    \E i \in 1..U64_LIMBS :
        /\ x[i] < y[i]
        /\ \A j \in (i + 1)..U64_LIMBS : x[j] = y[j]

\* C20: backoff arithmetic stays exact for every u32 max_retries.  The power
\* BASE_DELAY^attempt never leaves u64: no invocation aborts on it, no delay
\* slept is 0, and each delay is strictly larger than the one before it.
C20_BackoffExact ==
    \A p \in Tasks :
        /\ pc[p] # "Panicked"
        /\ pc[p] = "Backoff" =>
              /\ ~PowU64(BASE_DELAY, attempt[p]).overflow
              /\ delay[p] # U64Zero
              /\ LessU64(PowU64(BASE_DELAY, attempt[p] - 1).val, delay[p])

====
